---- MODULE Spec2Model ----
(***************************************************************************)
(* Model of src/app.py: F1Service.compare_fastest, F1Service.format_laptime *)
(* and the part of the dashboard script that derives the lap-time delta     *)
(* and the delta-vs-distance curve for two selected drivers.                *)
(*                                                                          *)
(* Numbers that the program holds as floats are modelled as exact           *)
(* rationals <<n, d>> in lowest terms with d > 0; the float NaN is <<0, 0>>.*)
(***************************************************************************)
EXTENDS Integers, Sequences, FiniteSets, TLC

VARIABLES session, pc, tel1, tel2, lap1, lap2, dmin, dmax, dist, s1, s2, comp_df,
          delta_seconds, delta_str, kpi1, kpi2, delta_time, error

vars == <<session, pc, tel1, tel2, lap1, lap2, dmin, dmax, dist, s1, s2, comp_df,
          delta_seconds, delta_str, kpi1, kpi2, delta_time, error>>

(***************************************************************************)
(* Bounds of the model.                                                     *)
(***************************************************************************)
MaxLen == 2          \* longest telemetry sample sequence drawn
MaxMin == 1          \* lap times are drawn with 0..MaxMin whole minutes

NumPoints == 1200    \* np.linspace(dmin, dmax, 1200)

None == <<>>         \* a name not bound yet

(***************************************************************************)
(* Exact rational arithmetic standing for float arithmetic.                 *)
(***************************************************************************)
NaN == <<0, 0>>

Abs(n) == IF n < 0 THEN -n ELSE n

RECURSIVE GCD(_, _)
GCD(a, b) == IF b = 0 THEN a ELSE GCD(b, a % b)

Rat(n, d) ==
    IF d = 0 THEN NaN
    ELSE LET g == GCD(Abs(n), Abs(d))
             s == IF d < 0 THEN -1 ELSE 1
         IN  <<(s * n) \div g, (s * d) \div g>>

FromInt(n) == <<n, 1>>
IsNaN(x) == x[2] = 0

\* Arithmetic on fractions not yet in lowest terms; a zero denominator (NaN)
\* carries through every operation.
RawAdd(x, y) == <<x[1] * y[2] + y[1] * x[2], x[2] * y[2]>>
RawSub(x, y) == <<x[1] * y[2] - y[1] * x[2], x[2] * y[2]>>
RawMul(x, y) == <<x[1] * y[1], x[2] * y[2]>>
RawDiv(x, y) == <<x[1] * y[2], x[2] * y[1]>>
Norm(x) == Rat(x[1], x[2])

Sub(x, y) == Norm(RawSub(x, y))

\* Every float comparison with NaN is false.
Lt(x, y) == ~IsNaN(x) /\ ~IsNaN(y) /\ x[1] * y[2] < y[1] * x[2]
Le(x, y) == ~IsNaN(x) /\ ~IsNaN(y) /\ x[1] * y[2] <= y[1] * x[2]
Gt(x, y) == Lt(y, x)
Ge(x, y) == Le(y, x)

\* Python's built-in max(a, b) / min(a, b): the first argument is kept unless
\* the second compares strictly greater / smaller.
PyMax(a, b) == IF Gt(b, a) THEN b ELSE a
PyMin(a, b) == IF Lt(b, a) THEN b ELSE a

(***************************************************************************)
(* pandas / numpy helpers used by compare_fastest.                          *)
(***************************************************************************)
Col(tel, c) == [i \in 1..Len(tel[c]) |-> FromInt(tel[c][i])]

RECURSIVE FoldMin(_, _, _)
FoldMin(xs, i, acc) ==
    IF i > Len(xs) THEN acc
    ELSE FoldMin(xs, i + 1, IF Lt(xs[i], acc) THEN xs[i] ELSE acc)

RECURSIVE FoldMax(_, _, _)
FoldMax(xs, i, acc) ==
    IF i > Len(xs) THEN acc
    ELSE FoldMax(xs, i + 1, IF Gt(xs[i], acc) THEN xs[i] ELSE acc)

\* Series.min() / Series.max(): NaN for an empty Series.
SeriesMin(xs) == IF Len(xs) = 0 THEN NaN ELSE FoldMin(xs, 2, xs[1])
SeriesMax(xs) == IF Len(xs) = 0 THEN NaN ELSE FoldMax(xs, 2, xs[1])

\* Linspace with endpoint=False: the step is (stop - start) / num.
LinspaceNoEndpoint(start, stop, num) ==
    [i \in 1..num |->
        Norm(RawAdd(start, RawDiv(RawMul(FromInt(i - 1), RawSub(stop, start)), FromInt(num))))]

\* np.linspace(start, stop, num): start + i * step, the last point set to stop.
Linspace(start, stop, num) ==
    [i \in 1..num |->
        IF i = num THEN stop
        ELSE Norm(RawAdd(start, RawDiv(RawMul(FromInt(i - 1), RawSub(stop, start)),
                                       FromInt(num - 1))))]

\* LinearSearch stopping at the first sample equal to the key.
RECURSIVE LinearSearchFirst(_, _, _)
LinearSearchFirst(key, xp, i) ==
    IF i <= Len(xp) /\ Gt(key, xp[i]) THEN LinearSearchFirst(key, xp, i + 1) ELSE i - 1

\* The index search of np.interp: 0 when key < xp[1], Len(xp) + 1 when
\* key > xp[Len(xp)], else the last j with xp[j] <= key (on sorted xp the
\* bisection used for longer arrays finds the same j).
RECURSIVE LinearSearch(_, _, _)
LinearSearch(key, xp, i) ==
    IF i <= Len(xp) /\ Ge(key, xp[i]) THEN LinearSearch(key, xp, i + 1) ELSE i - 1

SearchIdx(key, xp) ==
    IF Gt(key, xp[Len(xp)]) THEN Len(xp) + 1
    ELSE IF Lt(key, xp[1]) THEN 0
    ELSE LinearSearch(key, xp, 2)

\* InterpAt continuing the first / last segment outside the sample range.
InterpAtExtrapolate(x, xp, fp) ==
    IF IsNaN(x) THEN x
    ELSE LET j == SearchIdx(x, xp)
             n == Len(xp)
             k == IF j = 0 THEN 1 ELSE IF j >= n THEN n - 1 ELSE j
         IN  IF n = 1 THEN fp[1]
             ELSE IF j \in 1..(n - 1) /\ xp[j] = x THEN fp[j]
             ELSE IF j = n THEN fp[n]
             ELSE Norm(RawAdd(RawMul(RawDiv(RawSub(fp[k + 1], fp[k]), RawSub(xp[k + 1], xp[k])),
                                     RawSub(x, xp[k])),
                              fp[k]))

\* InterpAt with the left and right fill values exchanged.
InterpAtSwappedFill(x, xp, fp) ==
    IF IsNaN(x) THEN x
    ELSE LET j == SearchIdx(x, xp) IN
         IF j = 0 THEN fp[Len(xp)]
         ELSE IF j = Len(xp) + 1 THEN fp[1]
         ELSE IF j = Len(xp) THEN fp[j]
         ELSE IF xp[j] = x THEN fp[j]
         ELSE \* slope * (x - xp[j]) + fp[j]
              Norm(RawAdd(RawMul(RawDiv(RawSub(fp[j + 1], fp[j]), RawSub(xp[j + 1], xp[j])),
                                 RawSub(x, xp[j])),
                          fp[j]))

\* np.interp(x, xp, fp) at one query point, left = fp[0], right = fp[-1].
InterpAt(x, xp, fp) ==
    IF IsNaN(x) THEN x
    ELSE LET j == SearchIdx(x, xp) IN
         IF j = 0 THEN fp[1]
         ELSE IF j = Len(xp) + 1 THEN fp[Len(xp)]
         ELSE IF j = Len(xp) THEN fp[j]
         ELSE IF xp[j] = x THEN fp[j]
         ELSE \* slope * (x - xp[j]) + fp[j]
              Norm(RawAdd(RawMul(RawDiv(RawSub(fp[j + 1], fp[j]), RawSub(xp[j + 1], xp[j])),
                                 RawSub(x, xp[j])),
                          fp[j]))

Interp(xs, xp, fp) == [i \in 1..Len(xs) |-> InterpAt(xs[i], xp, fp)]

(***************************************************************************)
(* Durations.  A pandas Timedelta is a whole number of ticks of             *)
(* 1/TicksPerSec seconds, or NaT.                                           *)
(***************************************************************************)
TicksPerSec == 5 * 1000     \* ticks of 200 microseconds

NaT == [isna |-> TRUE, ticks |-> 0]
Timedelta(t) == [isna |-> FALSE, ticks |-> t]

\* Timedelta.total_seconds() as a float; NaT.total_seconds() is NaN.
TotalSeconds(td) == IF td.isna THEN NaN ELSE Rat(td.ticks, TicksPerSec)

\* td1 - td2 on Timedelta values; NaT propagates.
TdSub(a, b) == IF a.isna \/ b.isna THEN NaT ELSE Timedelta(a.ticks - b.ticks)

(***************************************************************************)
(* String formatting (Python format specifications).  A Python str is       *)
(* modelled as the sequence of its characters.                              *)
(***************************************************************************)
Digit == <<"0", "1", "2", "3", "4", "5", "6", "7", "8", "9">>

RECURSIVE IntToStr(_)
IntToStr(n) ==
    IF n < 10 THEN <<Digit[n + 1]>> ELSE Append(IntToStr(n \div 10), Digit[(n % 10) + 1])

RECURSIVE ZeroPad(_, _)
ZeroPad(str, width) == IF Len(str) >= width THEN str ELSE ZeroPad(<<"0">> \o str, width)

\* A non-negative rational rounded to a whole number of thousandths
\* (round-half-to-even, as the float formatting rounds).
RoundMilli(x) ==
    LET n == x[1] * 1000
        q == n \div x[2]
        r == n % x[2]
    IN  IF 2 * r < x[2] THEN q
        ELSE IF 2 * r > x[2] THEN q + 1
        ELSE IF q % 2 = 0 THEN q ELSE q + 1

\* format(x, ".3f") of a non-negative rational.
Fixed3(x) ==
    LET m == RoundMilli(x)
    IN  IntToStr(m \div 1000) \o <<".">> \o ZeroPad(IntToStr(m % 1000), 3)

\* f"{x:06.3f}" of a non-negative float.
Fmt06_3f(x) == IF IsNaN(x) THEN <<"0", "0", "0", "n", "a", "n">> ELSE ZeroPad(Fixed3(x), 6)

\* f"{x:+.3f}": the sign is always written; NaN is written "+nan".
FmtPlus_3f(x) ==
    IF IsNaN(x) THEN <<"+", "n", "a", "n">>
    ELSE IF x[1] < 0 THEN <<"-">> \o Fixed3(<<-x[1], x[2]>>)
    ELSE <<"+">> \o Fixed3(x)

\* int(x // m) and x % m of a float x and a positive integer m.
FloorDiv(x, m) == x[1] \div (x[2] * m)
FloatMod(x, m) == Sub(x, FromInt(m * FloorDiv(x, m)))

\* F1Service.format_laptime
format_laptime(lap_time) ==
    IF lap_time.isna THEN <<"N", "/", "A">>
    ELSE LET total_seconds == TotalSeconds(lap_time)
             minutes == FloorDiv(total_seconds, 60)
             seconds == FloatMod(total_seconds, 60)
         IN  IntToStr(minutes) \o <<":">> \o Fmt06_3f(seconds)

(***************************************************************************)
(* The loaded session: for each of the two selected drivers, the fastest    *)
(* lap (its LapTime) and that lap's telemetry table.  Telemetry distance is *)
(* cumulative, so a Distance column is non-decreasing.                      *)
(***************************************************************************)
DistVals == {0, 1, 2}
StartTimes == {0}

NonDecreasing(xs) == \A i \in 1..(Len(xs) - 1) : xs[i] <= xs[i + 1]

DistanceCols(n) == {xs \in [1..n -> DistVals] : NonDecreasing(xs)}

\* Speed traces: rising, falling and flat over the samples.
SpeedCols(n) == {[i \in 1..n |-> i], [i \in 1..n |-> n + 1 - i], [i \in 1..n |-> 1]}

\* SessionTime in whole seconds, one sample per second.
TimeCols(n) == {[i \in 1..n |-> t0 + i] : t0 \in StartTimes}

TelemetriesOfLen(n) ==
    {[Distance |-> d, Speed |-> v, SessionTime |-> t] :
        d \in DistanceCols(n), v \in SpeedCols(n), t \in TimeCols(n)}

Telemetries == UNION {TelemetriesOfLen(n) : n \in 0..MaxLen}

DropColumn(tel, c) == [k \in (DOMAIN tel) \ {c} |-> tel[k]]

Ms(m) == m * (TicksPerSec \div 1000)

LapA == [LapTime |-> Timedelta(Ms(80500))]
LapB == [LapTime |-> Timedelta(Ms(79800))]

\* Lap times with a sub-millisecond part (Timedelta has nanosecond resolution).
LapTimes ==
    {NaT} \cup
    {Timedelta(Ms(60000 * m + 1000 * sec + ms) + sub) :
        m \in 0..MaxMin, sec \in {0, 9, 23, 59}, ms \in {0, 456, 999},
        sub \in 0..(Ms(1) - 1)}

TelA == [Distance |-> <<0, 2>>, Speed |-> <<1, 2>>, SessionTime |-> <<1, 2>>]
TelB == [Distance |-> <<1, 2>>, Speed |-> <<2, 1>>, SessionTime |-> <<3, 5>>]
TelC == [Distance |-> <<0, 0>>, Speed |-> <<2, 1>>, SessionTime |-> <<3, 5>>]

\* Every pair of telemetry tables, both fastest laps timed.
SessionsAlign ==
    {[d1 |-> [lap |-> LapA, tel |-> t1], d2 |-> [lap |-> LapB, tel |-> t2]] :
        t1 \in Telemetries, t2 \in Telemetries}

\* Telemetry tables with or without a SessionTime column.
SessionsColumns ==
    {[d1 |-> [lap |-> LapA, tel |-> t1], d2 |-> [lap |-> LapB, tel |-> t2]] :
        t1 \in {TelA, DropColumn(TelA, "SessionTime")},
        t2 \in {TelB, DropColumn(TelB, "SessionTime"),
                TelC, DropColumn(TelC, "SessionTime")}}

\* Every lap time, present or absent.
SessionsLapTimes ==
    {[d1 |-> [lap |-> [LapTime |-> a], tel |-> TelB],
      d2 |-> [lap |-> [LapTime |-> b], tel |-> TelC]] :
        a \in LapTimes, b \in {NaT, LapB.LapTime}}

Sessions == SessionsAlign \cup SessionsColumns \cup SessionsLapTimes

\* F1Service.fastest_lap_telemetry
fastest_lap_telemetry(sess, driver_code) ==
    LET lap == sess[driver_code].lap
        tel == sess[driver_code].tel     \* the columns kept by lines 29-32
    IN  <<lap, tel>>

(***************************************************************************)
(* The script run for two selected drivers.                                 *)
(***************************************************************************)
Init ==
    /\ session \in Sessions
    /\ pc = "compare_fastest"
    /\ tel1 = None /\ tel2 = None /\ lap1 = None /\ lap2 = None
    /\ dmin = None /\ dmax = None /\ dist = None /\ s1 = None /\ s2 = None
    /\ comp_df = None
    /\ delta_seconds = None /\ delta_str = None /\ kpi1 = None /\ kpi2 = None
    /\ delta_time = None
    /\ error = ""

\* compare_fastest, lines 37-38
FetchLaps ==
    /\ pc = "compare_fastest"
    /\ lap1' = fastest_lap_telemetry(session, "d1")[1]
    /\ tel1' = fastest_lap_telemetry(session, "d1")[2]
    /\ lap2' = fastest_lap_telemetry(session, "d2")[1]
    /\ tel2' = fastest_lap_telemetry(session, "d2")[2]
    /\ pc' = "grid"
    /\ UNCHANGED <<session, dmin, dmax, dist, s1, s2, comp_df, delta_seconds,
                   delta_str, kpi1, kpi2, delta_time, error>>

GridMin(t1, t2) == PyMax(SeriesMin(Col(t1, "Distance")), SeriesMin(Col(t2, "Distance")))
GridMax(t1, t2) == PyMin(SeriesMax(Col(t1, "Distance")), SeriesMax(Col(t2, "Distance")))

\* Grid falling back only when dmax < dmin.
GridStrict(t1, t2) ==
    IF Lt(GridMax(t1, t2), GridMin(t1, t2))
    THEN Col(t1, "Distance")
    ELSE Linspace(GridMin(t1, t2), GridMax(t1, t2), NumPoints)

Grid(t1, t2) ==
    IF Le(GridMax(t1, t2), GridMin(t1, t2))
    THEN Col(t1, "Distance")
    ELSE Linspace(GridMin(t1, t2), GridMax(t1, t2), NumPoints)

\* compare_fastest, lines 40-45
BuildGrid ==
    /\ pc = "grid"
    /\ dmin' = GridMin(tel1, tel2)
    /\ dmax' = GridMax(tel1, tel2)
    /\ dist' = Grid(tel1, tel2)
    /\ pc' = "interp"
    /\ UNCHANGED <<session, tel1, tel2, lap1, lap2, s1, s2, comp_df, delta_seconds,
                   delta_str, kpi1, kpi2, delta_time, error>>

\* np.interp raises ValueError when the sample points are empty.
InterpRaises(tel) == Len(tel.Distance) = 0

InterpColumn(xs, tel, c) == Interp(xs, Col(tel, "Distance"), Col(tel, c))

\* DataFrame with a fourth column flagging a degenerate grid.
DataFrameFlagged(d, a, b) ==
    [Distance |-> d, d1_Speed |-> a, d2_Speed |-> b, NoOverlap |-> Len(d) # NumPoints]

DataFrame(d, a, b) == [Distance |-> d, d1_Speed |-> a, d2_Speed |-> b]

\* compare_fastest, lines 47-50; its locals end with the call.
InterpSpeeds ==
    /\ pc = "interp"
    /\ ~InterpRaises(tel1) /\ ~InterpRaises(tel2)
    /\ comp_df' = DataFrame(dist, InterpColumn(dist, tel1, "Speed"),
                                  InterpColumn(dist, tel2, "Speed"))
    /\ dmin' = None /\ dmax' = None /\ dist' = None
    /\ pc' = "lap_delta"
    /\ UNCHANGED <<session, tel1, tel2, lap1, lap2, s1, s2,
                   delta_seconds, delta_str, kpi1, kpi2, delta_time, error>>

\* InterpError with the exception swallowed and empty arrays handed on.
InterpErrorSwallowed ==
    /\ pc = "interp"
    /\ InterpRaises(tel1) \/ InterpRaises(tel2)
    /\ comp_df' = DataFrame(dist, <<>>, <<>>)
    /\ dmin' = None /\ dmax' = None /\ dist' = None
    /\ pc' = "lap_delta"
    /\ UNCHANGED <<session, tel1, tel2, lap1, lap2, s1, s2,
                   delta_seconds, delta_str, kpi1, kpi2, delta_time, error>>

\* compare_fastest, lines 47-48, when np.interp raises; the exception leaves
\* compare_fastest and the script run (line 125 catches nothing).
InterpError ==
    /\ pc = "interp"
    /\ InterpRaises(tel1) \/ InterpRaises(tel2)
    /\ s1' = IF InterpRaises(tel1) THEN s1 ELSE InterpColumn(dist, tel1, "Speed")
    /\ error' = "ValueError"
    /\ pc' = "error"
    /\ UNCHANGED <<session, tel1, tel2, lap1, lap2, dmin, dmax, dist, s2, comp_df,
                   delta_seconds, delta_str, kpi1, kpi2, delta_time>>

\* lines 129-132; the except branch repeats the same subtraction on floats.
LapDeltaSeconds(l1, l2) == TotalSeconds(TdSub(l1.LapTime, l2.LapTime))

\* line 137
DeltaStr(x) == FmtPlus_3f(x) \o <<"s">>

\* Lap delta calculation and KPIs, lines 127-143
LapDeltaKPIs ==
    /\ pc = "lap_delta"
    /\ delta_seconds' = LapDeltaSeconds(lap1, lap2)
    /\ delta_str' = DeltaStr(LapDeltaSeconds(lap1, lap2))
    /\ kpi1' = format_laptime(lap1.LapTime)
    /\ kpi2' = format_laptime(lap2.LapTime)
    /\ pc' = "delta_plot"
    /\ UNCHANGED <<session, tel1, tel2, lap1, lap2, dmin, dmax, dist, s1, s2,
                   comp_df, delta_time, error>>

HasColumn(tel, c) == c \in DOMAIN tel

VecSub(a, b) == [i \in 1..Len(a) |-> Sub(a[i], b[i])]

\* DeltaTime with the operands exchanged (t2 - t1).
DeltaTimeSwapped(df, t1, t2) ==
    VecSub(InterpColumn(df.Distance, t2, "SessionTime"),
           InterpColumn(df.Distance, t1, "SessionTime"))

DeltaTime(df, t1, t2) ==
    VecSub(InterpColumn(df.Distance, t1, "SessionTime"),
           InterpColumn(df.Distance, t2, "SessionTime"))

\* Delta vs distance, lines 176-190
DeltaVsDistance ==
    /\ pc = "delta_plot"
    /\ HasColumn(tel1, "SessionTime") /\ HasColumn(tel2, "SessionTime")
    /\ delta_time' = DeltaTime(comp_df, tel1, tel2)
    /\ pc' = "done"
    /\ UNCHANGED <<session, tel1, tel2, lap1, lap2, dmin, dmax, dist, s1, s2,
                   comp_df, delta_seconds, delta_str, kpi1, kpi2, error>>

\* line 176 false: no delta chart is drawn
SkipDeltaVsDistance ==
    /\ pc = "delta_plot"
    /\ ~(HasColumn(tel1, "SessionTime") /\ HasColumn(tel2, "SessionTime"))
    /\ pc' = "done"
    /\ UNCHANGED <<session, tel1, tel2, lap1, lap2, dmin, dmax, dist, s1, s2,
                   comp_df, delta_seconds, delta_str, kpi1, kpi2, delta_time, error>>

Next ==
    \/ FetchLaps
    \/ BuildGrid
    \/ InterpSpeeds
    \/ InterpError
    \/ LapDeltaKPIs
    \/ DeltaVsDistance
    \/ SkipDeltaVsDistance

Spec == Init /\ [][Next]_vars

(***************************************************************************)
(* Vocabulary of the properties, stated on the inputs themselves.           *)
(***************************************************************************)
Fetched == pc # "compare_fastest"
Returned == pc \in {"lap_delta", "delta_plot", "done"}
JustReturned == pc = "lap_delta"
KpisShown == pc \in {"delta_plot", "done"}

SetMin(S) == CHOOSE m \in S : \A y \in S : m <= y
SetMax(S) == CHOOSE m \in S : \A y \in S : m >= y
Values(xs) == {xs[i] : i \in 1..Len(xs)}

LapMin(tel) == SetMin(Values(tel.Distance))
LapMax(tel) == SetMax(Values(tel.Distance))

NonEmptyLaps == Len(tel1.Distance) > 0 /\ Len(tel2.Distance) > 0
EmptyLap == Len(tel1.Distance) = 0 \/ Len(tel2.Distance) = 0
DMin == SetMax({LapMin(tel1), LapMin(tel2)})
DMax == SetMin({LapMax(tel1), LapMax(tel2)})
RangesOverlap == NonEmptyLaps /\ DMax > DMin
NoOverlap == NonEmptyLaps /\ DMax <= DMin

FrameColumns == {"Distance", "d1_Speed", "d2_Speed"}

\* C1: for two non-empty laps whose distance ranges overlap (dMax > dMin), the
\* grid returned by compare_fastest has exactly 1200 points, is non-decreasing,
\* starts at dMin and ends at dMax.
C1_GridShape ==
    (JustReturned /\ RangesOverlap) =>
        LET g == comp_df.Distance IN
        /\ Len(g) = 1200
        /\ g[1] = FromInt(DMin)
        /\ g[Len(g)] = FromInt(DMax)
        /\ \A i \in 1..(Len(g) - 1) : Le(g[i], g[i + 1])

C1_Witness ==
    /\ JustReturned /\ RangesOverlap
    /\ Len(comp_df.Distance) = 1200
    /\ Lt(comp_df.Distance[1], comp_df.Distance[2])
    /\ LapMin(tel1) < LapMin(tel2) /\ LapMax(tel1) = LapMax(tel2)

\* C2: whenever dMax <= dMin the grid is exactly lap A's raw distance values
\* (same length, order and values), lap B's speed is interpolated at every
\* point of that grid, and no error is raised.
C2_FallbackGrid ==
    (Fetched /\ NoOverlap) =>
        /\ pc # "error" /\ error = ""
        /\ pc = "interp" => dist = [i \in 1..Len(tel1.Distance) |-> FromInt(tel1.Distance[i])]
        /\ Returned =>
            /\ comp_df.Distance = [i \in 1..Len(tel1.Distance) |-> FromInt(tel1.Distance[i])]
            /\ Len(comp_df.d2_Speed) = Len(tel1.Distance)
            /\ \A i \in 1..Len(tel1.Distance) :
                  comp_df.d2_Speed[i] =
                      InterpAt(FromInt(tel1.Distance[i]), Col(tel2, "Distance"), Col(tel2, "Speed"))

C2_Witness ==
    /\ pc = "done" /\ NoOverlap
    /\ DMax = DMin
    /\ Len(tel1.Distance) = 2 /\ tel1.Distance[1] # tel1.Distance[2]
    /\ Len(comp_df.Distance) = 2

\* C3: if either lap time is absent the lap-delta step does not raise and the
\* delta handed to the KPI is marked unavailable: never zero and never a NaN
\* written through the numeric format as if it were a real delta.
C3_AbsentDeltaUnavailable ==
    (KpisShown /\ (lap1.LapTime.isna \/ lap2.LapTime.isna)) =>
        /\ error = ""
        /\ delta_seconds # FromInt(0)
        /\ ~(IsNaN(delta_seconds) /\ delta_str = FmtPlus_3f(delta_seconds) \o <<"s">>)

\* C4 (as claimed): a comparison for a lap with an empty sample sequence fails
\* before any grid is built or interpolation is attempted, and no Comparison
\* with an empty grid or empty speed arrays is ever returned.
C4_FailsBeforeGrid ==
    /\ (Fetched /\ EmptyLap) =>
           /\ ~Returned
           /\ dist = None /\ s1 = None /\ s2 = None
    /\ Returned =>
           /\ Len(comp_df.Distance) > 0
           /\ Len(comp_df.d1_Speed) > 0 /\ Len(comp_df.d2_Speed) > 0

\* C4 (amended): a comparison for a lap with an empty sample sequence fails
\* with the ValueError of the interpolation step, raised after the distance
\* grid has been built; no Comparison is returned for it, and no returned
\* Comparison has an empty grid or empty speed arrays.
C4_FailsAtInterp ==
    /\ (Fetched /\ EmptyLap) =>
           /\ pc \in {"grid", "interp", "error"}
           /\ pc = "error" => (error = "ValueError" /\ Len(dist) > 0)
    /\ pc = "error" => EmptyLap
    /\ Returned =>
           /\ Len(comp_df.Distance) > 0
           /\ Len(comp_df.d1_Speed) > 0 /\ Len(comp_df.d2_Speed) > 0

C4_Witness ==
    /\ pc = "error" /\ error = "ValueError"
    /\ Len(tel2.Distance) = 0 /\ Len(tel1.Distance) = 2
    /\ Len(dist) = 1200 /\ Len(s1) = 1200

\* C5 (as claimed): a Comparison returned from non-overlapping laps carries a
\* quality flag telling that the fallback was taken, and one returned from
\* overlapping laps does not; neither case raises.
C5_FallbackFlagged ==
    /\ (Fetched /\ NoOverlap) => pc # "error"
    /\ Returned => (NoOverlap <=> (DOMAIN comp_df) # FrameColumns)

\* C5 (amended): whenever the distance ranges do not overlap the comparison is
\* returned without an exception, and the returned Comparison carries no
\* quality flag: it has exactly the columns Distance, d1_Speed and d2_Speed,
\* whether or not the fallback was taken.
C5_NoFlag ==
    /\ (Fetched /\ NoOverlap) => pc # "error"
    /\ Returned => (DOMAIN comp_df) = FrameColumns

C5_Witness ==
    /\ pc = "done" /\ NoOverlap /\ DMax < DMin
    /\ Len(comp_df.Distance) = Len(tel1.Distance)

Clamped(g, tel, s) ==
    LET lo == FromInt(LapMin(tel))
        hi == FromInt(LapMax(tel))
        first == FromInt(tel.Speed[1])
        last == FromInt(tel.Speed[Len(tel.Speed)])
    IN  \A i \in 1..Len(g) :
            /\ Lt(g[i], lo) => s[i] = first
            /\ Gt(g[i], hi) => s[i] = last

\* C6: at every grid point below a lap's minimum sample distance the
\* interpolated speed is the speed of the lap's first sample, and at every grid
\* point above its maximum it is the speed of the last sample.
C6_Clamped ==
    JustReturned =>
        /\ Len(comp_df.d1_Speed) = Len(comp_df.Distance)
        /\ Len(comp_df.d2_Speed) = Len(comp_df.Distance)
        /\ Clamped(comp_df.Distance, tel1, comp_df.d1_Speed)
        /\ Clamped(comp_df.Distance, tel2, comp_df.d2_Speed)

C6_Witness ==
    /\ JustReturned
    /\ tel2.Speed[1] # tel2.Speed[Len(tel2.Speed)]
    /\ \E i \in 1..Len(comp_df.Distance) : Lt(comp_df.Distance[i], FromInt(LapMin(tel2)))
    /\ \E i \in 1..Len(comp_df.Distance) : Gt(comp_df.Distance[i], FromInt(LapMax(tel2)))

LastSame(xs, i) == SetMax({k \in 1..Len(xs) : xs[k] = xs[i]})

\* C7 (as claimed): for non-decreasing sample distances, duplicates permitted,
\* interpolating the lap's speed onto its own distance values returns the
\* original speed at every sample index.
C7_OwnGridReproduces ==
    (Returned /\ NoOverlap) =>
        \A i \in 1..Len(tel1.Distance) : comp_df.d1_Speed[i] = FromInt(tel1.Speed[i])

\* C7 (amended): interpolating the lap's speed onto its own distance values
\* returns, at every sample index, the speed of the last sample that has that
\* distance; this is the sample's own speed when its distance is not repeated
\* later in the lap.
C7_OwnGridLastDuplicate ==
    (Returned /\ NoOverlap) =>
        /\ Len(comp_df.d1_Speed) = Len(tel1.Distance)
        /\ \A i \in 1..Len(tel1.Distance) :
              /\ comp_df.d1_Speed[i] = FromInt(tel1.Speed[LastSame(tel1.Distance, i)])
              /\ (\A k \in (i + 1)..Len(tel1.Distance) : tel1.Distance[k] # tel1.Distance[i])
                    => comp_df.d1_Speed[i] = FromInt(tel1.Speed[i])

C7_Witness ==
    /\ pc = "done" /\ NoOverlap
    /\ \E i \in 1..(Len(tel1.Distance) - 1) :
          /\ tel1.Distance[i] = tel1.Distance[i + 1]
          /\ tel1.Speed[i] # tel1.Speed[i + 1]
          /\ comp_df.d1_Speed[i] = FromInt(tel1.Speed[i + 1])


\* C8: the delta-time curve is produced exactly when both laps carry
\* SessionTime; it has one value per point of the grid of the speed overlay,
\* and its value at grid index i is lap A's SessionTime interpolated at grid[i]
\* minus lap B's, so it is positive exactly where driver A is behind.
C8_DeltaCurve ==
    /\ pc # "done" => delta_time = None
    /\ pc = "done" =>
        /\ (delta_time # None) <=> ("SessionTime" \in DOMAIN tel1 /\ "SessionTime" \in DOMAIN tel2)
        /\ delta_time # None =>
            /\ Len(delta_time) = Len(comp_df.Distance)
            /\ LET xA == Col(tel1, "Distance")
                   yA == Col(tel1, "SessionTime")
                   xB == Col(tel2, "Distance")
                   yB == Col(tel2, "SessionTime")
               IN  \A i \in 1..Len(comp_df.Distance) :
                       LET tA == InterpAt(comp_df.Distance[i], xA, yA)
                           tB == InterpAt(comp_df.Distance[i], xB, yB)
                       IN  /\ delta_time[i] = Sub(tA, tB)
                           /\ (delta_time[i][1] > 0) <=> Gt(tA, tB)

C8_Witness ==
    /\ pc = "done" /\ delta_time # None
    /\ Len(delta_time) = 1200
    /\ delta_time[1][1] = 0
    /\ \E i \in 1..Len(delta_time) : delta_time[i][1] > 0

IsDigit(c) == \E k \in 1..10 : Digit[k] = c
DigitVal(c) == (CHOOSE k \in 1..10 : Digit[k] = c) - 1

\* C9: format_laptime returns "N/A" for an absent duration, and for a present
\* non-negative duration minutes:seconds.milliseconds, the minutes being the
\* whole number of minutes and the seconds part having exactly 2 integer
\* digits and 3 decimals and being below 60.
C9_FormatLapTime ==
    KpisShown =>
        IF lap1.LapTime.isna THEN kpi1 = <<"N", "/", "A">>
        ELSE LET n == Len(kpi1) IN
             /\ n >= 8
             /\ SubSeq(kpi1, 1, n - 7) = IntToStr(lap1.LapTime.ticks \div (60 * TicksPerSec))
             /\ kpi1[n - 6] = ":"
             /\ kpi1[n - 3] = "."
             /\ \A k \in {n - 5, n - 4, n - 2, n - 1, n} : IsDigit(kpi1[k])
             /\ 10 * DigitVal(kpi1[n - 5]) + DigitVal(kpi1[n - 4]) < 60

\* C10: in the fallback with disjoint ranges lap B's speed overlay is flat and
\* as long as lap A's raw sample sequence: all entries are the speed of B's
\* first sample when A lies wholly below B, of B's last sample when A lies
\* wholly above B.
C10_FlatOverlay ==
    (Returned /\ NonEmptyLaps) =>
        /\ LapMax(tel1) < LapMin(tel2) =>
              /\ Len(comp_df.d2_Speed) = Len(tel1.Distance)
              /\ \A i \in 1..Len(comp_df.d2_Speed) :
                    comp_df.d2_Speed[i] = FromInt(tel2.Speed[1])
        /\ LapMin(tel1) > LapMax(tel2) =>
              /\ Len(comp_df.d2_Speed) = Len(tel1.Distance)
              /\ \A i \in 1..Len(comp_df.d2_Speed) :
                    comp_df.d2_Speed[i] = FromInt(tel2.Speed[Len(tel2.Speed)])

C10_Witness ==
    /\ pc = "done" /\ NonEmptyLaps
    /\ LapMin(tel1) > LapMax(tel2)
    /\ Len(tel1.Distance) = 2 /\ Len(tel2.Distance) = 2
    /\ tel2.Speed[1] # tel2.Speed[2]
    /\ comp_df.d2_Speed = <<FromInt(tel2.Speed[2]), FromInt(tel2.Speed[2])>>

====
